---- MODULE Spec2Model ----
(***************************************************************************)
(* Model of lib/bsts.py: the BSTS object (fields model and trace), its    *)
(* operations fit, posterior_model, predict and predict_trajectories, and  *)
(* the process-global numpy random generator that predict draws from.      *)
(*                                                                         *)
(* Numbers.  TLA+ has no reals, so every quantity is an integer.  The      *)
(* sampler (external to the repository) is a bounded family of traces      *)
(* whose draws of one quantity are congruent modulo the number of draws,   *)
(* so that every arithmetic mean taken by the code is an exact integer.    *)
(* A normal variate of scale s is s * z with z a standard variate read     *)
(* from the generator's stream.                                            *)
(*                                                                         *)
(* Exceptions keep their Python names.  The code defines no exception      *)
(* class of its own: reading the unset trace raises TypeError (None is not *)
(* subscriptable), an empty horizon raises IndexError, and shapes that do  *)
(* not fit raise ValueError.                                               *)
(***************************************************************************)
EXTENDS Integers, Sequences, FiniteSets, TLC

\* ------------------------------------------------------------------ bounds
MaxDraws == 2       \* n_samples of fit ranges over 1..MaxDraws
MaxObs == 3         \* length of observed ranges over 1..MaxObs
MaxK == 1           \* number of feature columns ranges over 0..MaxK
MaxRows == 3        \* number of feature rows ranges over 0..MaxRows
MaxSeed == 1        \* outcomes of one successful sampler run
MaxTraj == 2        \* n_samples of predict_trajectories ranges over 0..MaxTraj
MaxFits == 2        \* fit is called at most MaxFits times on one object
RngPeriod == 3      \* the generator's stream repeats after RngPeriod variates
NumThreads == 2     \* threads calling predict at the same time

\* The shortest observed series whose graph can be built: delta has
\* observed.shape[0] - 1 elements and a random walk needs a first element.
MinObserved == 2

\* Python's None, as the value of an exception slot, of self.model and of
\* self.trace (a record of the same shape as a handle or a trace, so that the
\* two compare)
None == "None"

NoModel == [id |-> 0, K |-> 0, T |-> 0]

NoTrace ==
    [graph |-> 0, N |-> 0, K |-> 0, T |-> 0,
     sigma_eps |-> <<>>, alpha |-> <<>>, beta |-> <<>>, sigma_u |-> <<>>,
     sigma_v |-> <<>>, delta |-> <<>>, trend |-> <<>>]

VARIABLES
    model,      \* self.model: NoModel, or the handle of the graph built last
    trace,      \* self.trace: NoTrace, or the draws stored by a sampler run
    rng,        \* state of the process-global generator np.random
    last,       \* the latest call on the object: operation, arguments, outcome
    sim         \* the simulations in progress: per thread, a call of predict

vars == <<model, trace, rng, last, sim>>

\* ---------------------------------------------------------------- helpers
RECURSIVE SumTo(_, _)
\* f[1] + ... + f[n]
SumTo(f, n) == IF n = 0 THEN 0 ELSE SumTo(f, n - 1) + f[n]

\* ndarray.mean over the draws xs[1..n]
Mean(xs) == SumTo(xs, Len(xs)) \div Len(xs)

\* trace[name].mean(axis=0) of a draws-by-columns table: the mean of each column
MeanAxis0(tab, ncols) ==
    [j \in 1..ncols |-> Mean([n \in 1..Len(tab) |-> tab[n][j]])]

\* trace[name][:, -1].mean(): the mean over the draws of the last column
MeanLastColumn(tab, ncols) == Mean([n \in 1..Len(tab) |-> tab[n][ncols]])

\* (beta * features).sum(axis=1) at row t
RowDot(beta, row) == SumTo([i \in 1..Len(row) |-> beta[i] * row[i]], Len(row))

\* ---------------------------------------------------------- feature tables
\* A pandas.DataFrame of rows x cols numbers; the shape is kept beside the
\* values because an empty table still has a column count.
FeatureValue(t, i) == ((2 * t + i) % 3) + 1

FeatureTable(rows, cols) ==
    [rows |-> rows, cols |-> cols,
     x |-> [t \in 1..rows |-> [i \in 1..cols |-> FeatureValue(t, i)]]]

\* Every table within the bounds: the arguments of the calls on a fitted object
FeatureTables == {FeatureTable(r, k) : r \in 0..MaxRows, k \in 0..MaxK}

\* The arguments of the calls while an object is fitted, refitted and read:
\* the extreme values of each argument, and the lengths 0, 1 and MinObserved
LifeTables == {FeatureTable(r, k) : r \in {0, 1, MinObserved}, k \in {0, MaxK}}

LifeObserved == {1, MinObserved, MaxObs}

LifeDraws == {1, MaxDraws}

LifeSeeds == {1, MaxSeed}

LifeTrajectories == {0, MaxTraj}

NoFeatures == FeatureTable(0, 0)

\* ------------------------------------------------------------- the sampler
\* pymc3.sample is external.  A run is identified by its seed: a successful run
\* returns n draws of every named quantity of the graph, and every run leaves
\* the global generator, which it draws from, advanced.  Draw d of a quantity
\* is a base plus a multiple of n, which keeps the means integral.
Draws(n, base, seed) == [d \in 1..n |-> base + n * ((d + seed) % 2)]

DrawTable(n, ncols, base, seed) ==
    [d \in 1..n |-> [j \in 1..ncols |-> base + 2 * j + n * ((d + j + seed) % 2)]]

\* The generator after a sampler run started in state r
SamplerRng(r, seed) == (r + seed) % RngPeriod

Sample(graph, n, seed) ==
    [graph |-> graph.id, N |-> n, K |-> graph.K, T |-> graph.T,
     sigma_eps |-> Draws(n, 1, seed),
     alpha |-> Draws(n, seed, seed + 1),
     beta |-> DrawTable(n, graph.K, seed, seed),
     sigma_u |-> Draws(n, 2, seed + 1),
     sigma_v |-> Draws(n, 1, seed + 1),
     delta |-> DrawTable(n, graph.T - 1, seed - 2, seed),
     trend |-> DrawTable(n, graph.T, 3 * seed, seed + 1)]

\* ----------------------------------------------------------- the generator
\* The standard variate the generator yields in state r
StdNormal(r) == ((r * 2 + 1) % 3) - 1

\* np.random.normal(loc=0, scale=scale, size=size) in generator state r:
\* size variates, the generator advanced by size
Normal(scale, size, r) ==
    [x |-> [t \in 1..size |-> scale * StdNormal((r + t - 1) % RngPeriod)],
     rng |-> (r + size) % RngPeriod]

\* np.zeros(size)
Zeros(size) == [t \in 1..size |-> 0]

\* ------------------------------------------------------- outcomes of a call
NoLocals == [eps |-> <<>>, u |-> <<>>, v |-> <<>>, delta |-> <<>>, trend |-> <<>>]

Raise(exc, r) == [kind |-> "raise", exc |-> exc, value |-> <<>>, rng |-> r, locals |-> NoLocals]

Return(value, r, locals) ==
    [kind |-> "return", exc |-> None, value |-> value, rng |-> r, locals |-> locals]

\* -------------------------------------------------------------- predict
\* NoiseVectors with the test of the noise flag lost
NoiseVectorsAlways(tr, size, noise, r) ==
    LET e == Normal(Mean(tr.sigma_eps), size, r)
        u == Normal(Mean(tr.sigma_u), size, e.rng)
        v == Normal(Mean(tr.sigma_v), size, u.rng)
    IN  [eps |-> e.x, u |-> u.x, v |-> v.x, rng |-> v.rng]

\* Lines 85-95: with noise the three vectors are drawn, in the order eps, u, v,
\* from the global generator; without noise they are zero and nothing is drawn.
NoiseVectors(tr, size, noise, r) ==
    IF noise
    THEN LET e == Normal(Mean(tr.sigma_eps), size, r)
             u == Normal(Mean(tr.sigma_u), size, e.rng)
             v == Normal(Mean(tr.sigma_v), size, u.rng)
         IN  [eps |-> e.x, u |-> u.x, v |-> v.x, rng |-> v.rng]
    ELSE [eps |-> Zeros(size), u |-> Zeros(size), v |-> Zeros(size), rng |-> r]

\* TrendStep with the slope term lost
TrendStepNoSlope(prevTrend, deltaT, uT) == prevTrend + uT

\* Line 101: the level appended at step t
TrendStep(prevTrend, deltaT, uT) == prevTrend + deltaT + uT

RECURSIVE Walk(_, _, _, _, _)
\* Lines 99-101: the loop over t = 1..size-1, appending to both lists
Walk(delta, trend, u, v, size) ==
    IF Len(delta) >= size
    THEN [delta |-> delta, trend |-> trend]
    ELSE LET t == Len(delta) + 1
             d == delta[t - 1] + v[t]
         IN  Walk(Append(delta, d), Append(trend, TrendStep(trend[t - 1], d, u[t])),
                  u, v, size)

\* Lines 97-103: the walk from the end of the fitted trend and the output,
\* given the three noise vectors nz and the generator state they left
Forecast(tr, features, nz) ==
    LET alpha == Mean(tr.alpha)
        beta == MeanAxis0(tr.beta, tr.K)
        size == features.rows
    IN  IF size = 0
        THEN Raise("IndexError", nz.rng)            \* v[0] of an empty vector
        ELSE LET delta0 == MeanLastColumn(tr.delta, tr.T - 1) + nz.v[1]
                 trend0 == MeanLastColumn(tr.trend, tr.T) + delta0 + nz.u[1]
                 w == Walk(<<delta0>>, <<trend0>>, nz.u, nz.v, size)
             IN  IF features.cols # tr.K
                 THEN Raise("ValueError", nz.rng)   \* beta * features
                 ELSE Return([t \in 1..size |->
                                 w.trend[t] + alpha + RowDot(beta, features.x[t]) + nz.eps[t]],
                             nz.rng,
                             [eps |-> nz.eps, u |-> nz.u, v |-> nz.v,
                              delta |-> w.delta, trend |-> w.trend])

\* Lines 83-103 on a stored trace
PredictFitted(tr, features, noise, r) ==
    Forecast(tr, features, NoiseVectors(tr, features.rows, noise, r))

\* Predict with a default answer in place of the failure on an unset trace
PredictUnfittedZeros(tr, features, noise, r) ==
    IF tr = NoTrace
    THEN Return(Zeros(features.rows), r, NoLocals)
    ELSE PredictFitted(tr, features, noise, r)

\* predict(features, noise) with self.trace = tr and the generator in state r
Predict(tr, features, noise, r) ==
    IF tr = NoTrace
    THEN Raise("TypeError", r)                      \* None is not subscriptable
    ELSE PredictFitted(tr, features, noise, r)

\* ------------------------------------------------------- posterior_model
\* PosteriorFitted with the level of the last training step at every step
PosteriorFittedLastLevel(tr, features, r) ==
    LET trend == MeanLastColumn(tr.trend, tr.T)
        alpha == Mean(tr.alpha)
        beta == MeanAxis0(tr.beta, tr.K)
    IN  IF features.cols # tr.K
        THEN Raise("ValueError", r)
        ELSE IF features.rows # tr.T
        THEN Raise("ValueError", r)
        ELSE Return([t \in 1..tr.T |-> trend + alpha + RowDot(beta, features.x[t])],
                    r, NoLocals)

\* Lines 70-72 on a stored trace
PosteriorFitted(tr, features, r) ==
    LET trend == MeanAxis0(tr.trend, tr.T)
        alpha == Mean(tr.alpha)
        beta == MeanAxis0(tr.beta, tr.K)
    IN  IF features.cols # tr.K
        THEN Raise("ValueError", r)                 \* beta * features
        ELSE IF features.rows # tr.T
        THEN Raise("ValueError", r)                 \* T values + features.rows values
        ELSE Return([t \in 1..tr.T |-> trend[t] + alpha + RowDot(beta, features.x[t])],
                    r, NoLocals)

\* posterior_model(features) with self.trace = tr
PosteriorModel(tr, features, r) ==
    IF tr = NoTrace
    THEN Raise("TypeError", r)
    ELSE PosteriorFitted(tr, features, r)

\* -------------------------------------------------- predict_trajectories
RECURSIVE Trajectories(_, _, _, _, _)
\* The list comprehension of line 114: n calls of predict(features), one after
\* the other, each appending its row; the first call that raises ends it.
Trajectories(tr, features, n, r, rows) ==
    IF n = 0
    THEN Return(rows, r, NoLocals)
    ELSE LET p == Predict(tr, features, TRUE, r)
         IN  IF p.kind = "raise"
             THEN p
             ELSE Trajectories(tr, features, n - 1, p.rng, Append(rows, p.value))

PredictTrajectories(tr, features, n, r) == Trajectories(tr, features, n, r, <<>>)

\* ------------------------------------------------------------------ fit
\* Lines 41-54, the graph.  Line 47 sums over the columns: with no column the
\* regression term is the scalar alpha and the rows of features are never
\* read; with columns it has features.rows elements and is added to the
\* observed.shape[0] elements of trend (line 54), which numpy broadcasting
\* accepts when the lengths agree or the regression term has one element.
GraphBuilds(features, obs) ==
    /\ obs >= MinObserved
    /\ \/ features.cols = 0
       \/ features.rows = obs
       \/ features.rows = 1

\* Line 41: the handle bound to self.model on entering the with block
NewModel(id, features, obs) == [id |-> id, K |-> features.cols, T |-> obs]

\* StoreTrace that keeps a trace already stored
StoreTraceKeepFirst(old, new) == IF old = NoTrace THEN new ELSE old

\* Line 57: the assignment self.trace = sample(...)
StoreTrace(old, new) == new

Call(op, features, noise, n, obs, sampled, r0, out) ==
    [op |-> op, features |-> features, noise |-> noise, n |-> n, obs |-> obs,
     sampled |-> sampled, rng0 |-> r0,
     kind |-> out.kind, exc |-> out.exc, value |-> out.value, locals |-> out.locals]

\* fit(features, observed, n_samples): the graph cannot be built
FitGraphError ==
    \E features \in LifeTables, obs \in LifeObserved, n \in LifeDraws :
        /\ model.id < MaxFits
        /\ ~GraphBuilds(features, obs)
        /\ model' = NewModel(model.id + 1, features, obs)
        /\ last' = Call("fit", features, FALSE, n, obs, FALSE, rng, Raise("ValueError", rng))
        /\ UNCHANGED <<trace, rng, sim>>

\* fit(features, observed, n_samples): the graph is built and the sampler raises
FitSamplerError ==
    \E features \in LifeTables, obs \in LifeObserved, n \in LifeDraws, seed \in LifeSeeds :
        /\ model.id < MaxFits
        /\ GraphBuilds(features, obs)
        /\ model' = NewModel(model.id + 1, features, obs)
        /\ rng' = SamplerRng(rng, seed)
        /\ last' = Call("fit", features, FALSE, n, obs, TRUE, rng, Raise("SamplingError", rng'))
        /\ UNCHANGED <<trace, sim>>

\* The state a successful fit(features, observed, n_samples) leaves
Fitted(features, obs, n, seed) ==
    /\ GraphBuilds(features, obs)
    /\ model' = NewModel(model.id + 1, features, obs)
    /\ trace' = StoreTrace(trace, Sample(model', n, seed))
    /\ rng' = SamplerRng(rng, seed)
    /\ last' = Call("fit", features, FALSE, n, obs, TRUE, rng, Return(<<>>, rng', NoLocals))

\* fit(features, observed, n_samples): the graph is built and the sampler returns
FitSuccess ==
    \E features \in LifeTables, obs \in LifeObserved, n \in LifeDraws, seed \in LifeSeeds :
        /\ model.id < MaxFits
        /\ Fitted(features, obs, n, seed)
        /\ UNCHANGED sim

\* --------------------------------------------------- the read operations
PosteriorModelCall(tables) ==
    \E features \in tables :
        \E out \in {PosteriorModel(trace, features, rng)} :
            /\ last' = Call("posterior_model", features, FALSE, 0, 0, FALSE, rng, out)
            /\ rng' = out.rng
            /\ UNCHANGED <<model, trace, sim>>

PredictCall(tables) ==
    \E features \in tables, noise \in BOOLEAN :
        \E out \in {Predict(trace, features, noise, rng)} :
            /\ last' = Call("predict", features, noise, 0, 0, FALSE, rng, out)
            /\ rng' = out.rng
            /\ UNCHANGED <<model, trace, sim>>

PredictTrajectoriesCall(tables, counts) ==
    \E features \in tables, n \in counts :
        \E out \in {PredictTrajectories(trace, features, n, rng)} :
            /\ last' = Call("predict_trajectories", features, TRUE, n, 0, FALSE, rng, out)
            /\ rng' = out.rng
            /\ UNCHANGED <<model, trace, sim>>

\* ------------------------------------------- predict, called concurrently
\* Several threads call predict(features) (noise=True) on one object.  Each
\* np.random.normal call is one step: numpy's generator takes its lock for the
\* length of a call, and a thread may be descheduled between two calls.
Threads == 1..NumThreads

Idle == [pc |-> "idle", features |-> NoFeatures, rng0 |-> 0,
         eps |-> <<>>, u |-> <<>>, v |-> <<>>, out |-> <<>>]

NoSimulations == [i \in Threads |-> Idle]

\* The call is entered: the arguments are bound (rng0 notes the generator's
\* state at that moment)
SimBegin(i) ==
    \E features \in LifeTables :
        /\ sim[i].pc = "idle"
        /\ trace # NoTrace
        /\ sim' = [sim EXCEPT ![i] = [Idle EXCEPT !.pc = "eps", !.features = features,
                                                  !.rng0 = rng]]
        /\ UNCHANGED <<model, trace, rng, last>>

\* Lines 86-87
SimDrawEps(i) ==
    /\ sim[i].pc = "eps"
    /\ \E d \in {Normal(Mean(trace.sigma_eps), sim[i].features.rows, rng)} :
        /\ rng' = d.rng
        /\ sim' = [sim EXCEPT ![i].pc = "u", ![i].eps = d.x]
    /\ UNCHANGED <<model, trace, last>>

\* Lines 88-89
SimDrawU(i) ==
    /\ sim[i].pc = "u"
    /\ \E d \in {Normal(Mean(trace.sigma_u), sim[i].features.rows, rng)} :
        /\ rng' = d.rng
        /\ sim' = [sim EXCEPT ![i].pc = "v", ![i].u = d.x]
    /\ UNCHANGED <<model, trace, last>>

\* Lines 90-91
SimDrawV(i) ==
    /\ sim[i].pc = "v"
    /\ \E d \in {Normal(Mean(trace.sigma_v), sim[i].features.rows, rng)} :
        /\ rng' = d.rng
        /\ sim' = [sim EXCEPT ![i].pc = "walk", ![i].v = d.x]
    /\ UNCHANGED <<model, trace, last>>

\* Lines 97-103: the walk and the output, on the thread's own vectors
SimFinish(i) ==
    /\ sim[i].pc = "walk"
    /\ sim' = [sim EXCEPT ![i].pc = "done",
                          ![i].out = Forecast(trace, sim[i].features,
                                              [eps |-> sim[i].eps, u |-> sim[i].u,
                                               v |-> sim[i].v, rng |-> rng])]
    /\ UNCHANGED <<model, trace, rng, last>>

\* ----------------------------------------------------- the specifications
\* Lines 26-30: a new object; the generator is in any state
Init ==
    /\ model = NoModel
    /\ trace = NoTrace
    /\ rng \in 0..(RngPeriod - 1)
    /\ last = Call("__init__", NoFeatures, FALSE, 0, 0, FALSE, rng, Return(<<>>, rng, NoLocals))
    /\ sim = NoSimulations

\* The life of one object: fitted, refitted and read
Next ==
    \/ FitGraphError
    \/ FitSamplerError
    \/ FitSuccess
    \/ PosteriorModelCall(LifeTables)
    \/ PredictCall(LifeTables)
    \/ PredictTrajectoriesCall(LifeTables, LifeTrajectories)

Spec == Init /\ [][Next]_vars

\* An object after its first successful fit, read with every feature table
InitForecast ==
    \E r \in 0..(RngPeriod - 1), features \in FeatureTables, obs \in 1..MaxObs,
       n \in 1..MaxDraws, seed \in 1..MaxSeed :
        /\ GraphBuilds(features, obs)
        /\ model = NewModel(1, features, obs)
        /\ trace = StoreTrace(NoTrace, Sample(model, n, seed))
        /\ rng = SamplerRng(r, seed)
        /\ last = Call("fit", features, FALSE, n, obs, TRUE, r, Return(<<>>, rng, NoLocals))
        /\ sim = NoSimulations

NextForecast ==
    \/ PosteriorModelCall(FeatureTables)
    \/ PredictCall(FeatureTables)
    \/ PredictTrajectoriesCall(FeatureTables, 0..MaxTraj)

SpecForecast == InitForecast /\ [][NextForecast]_vars

\* One fitted object whose predict is called from NumThreads threads
InitConcurrent ==
    \E r \in 0..(RngPeriod - 1), features \in LifeTables, obs \in LifeObserved,
       n \in LifeDraws, seed \in LifeSeeds :
        /\ GraphBuilds(features, obs)
        /\ model = NewModel(1, features, obs)
        /\ trace = StoreTrace(NoTrace, Sample(model, n, seed))
        /\ rng = SamplerRng(r, seed)
        /\ last = Call("fit", features, FALSE, n, obs, TRUE, r, Return(<<>>, rng, NoLocals))
        /\ sim = NoSimulations

NextConcurrent ==
    \E i \in Threads :
        \/ SimBegin(i)
        \/ SimDrawEps(i)
        \/ SimDrawU(i)
        \/ SimDrawV(i)
        \/ SimFinish(i)

SpecConcurrent == InitConcurrent /\ [][NextConcurrent]_vars

\* ------------------------------------------------------------ properties
\* m is the arithmetic mean of the draws xs
IsMean(m, xs) == Len(xs) > 0 /\ m * Len(xs) = SumTo(xs, Len(xs))

\* Column j of a draws-by-columns table
Column(tab, j) == [d \in 1..Len(tab) |-> tab[d][j]]

AllZero(xs) == \A t \in 1..Len(xs) : xs[t] = 0

\* The regression term of row t: alpha_hat + sum over i of beta_hat_i * features[t, i],
\* the hats being the means over all draws
IsRegression(y, tr, row) ==
    \E a \in {Mean(tr.alpha)} :
        /\ IsMean(a, tr.alpha)
        /\ \A i \in 1..tr.K : IsMean(MeanAxis0(tr.beta, tr.K)[i], Column(tr.beta, i))
        /\ y = a + SumTo([i \in 1..tr.K |-> MeanAxis0(tr.beta, tr.K)[i] * row[i]], tr.K)

\* C1: while no fit has stored a trace, every call of predict and of
\* posterior_model, whatever its features, raises and returns nothing.  The
\* exception is Python's TypeError for subscripting None, which is what the
\* specification names InferenceNotRunError.
C1_UnfittedReadsFail ==
    (trace = NoTrace /\ last.op \in {"predict", "posterior_model"}) =>
        /\ last.kind = "raise"
        /\ last.exc = "TypeError"
        /\ last.value = <<>>

\* C1 witness: posterior_model called, with a table of rows, on an object whose
\* only fit failed
C1_Witness ==
    /\ trace = NoTrace
    /\ model.id = 1
    /\ last.op = "posterior_model"
    /\ last.features.rows > 0
    /\ last.kind = "raise"

\* C2 as claimed: a fit whose features have another number of rows than observed
\* has values raises before the sampler is invoked
C2_MismatchFailsBeforeSampling ==
    (last.op = "fit" /\ last.features.rows # last.obs) =>
        /\ last.kind = "raise"
        /\ ~last.sampled

\* C3 as claimed: when the most recent fit failed because the sampler raised
\* (the handle it built is not the graph of the stored trace, and is a graph
\* that builds whatever the rows of features: no column, and an observed series
\* long enough), no read operation returns a result computed from a trace
C3_FailedFitLeavesUnusable ==
    (model.id # trace.graph /\ model.K = 0 /\ model.T >= MinObserved) =>
        /\ last.op \in {"predict", "posterior_model"} => last.kind = "raise"
        /\ (last.op = "predict_trajectories" /\ last.n > 0) => last.kind = "raise"

\* C8: the read operations leave the trace and the handle as they are; a fit
\* that raises leaves the trace as it is; a fit that returns stores exactly the
\* trace its own sampler run produced for the graph it built.  (A step that
\* changes the handle is a call of fit, and no other step does.)
C8_TraceWrittenOnlyByFit ==
    [][ /\ (last'.op \in {"posterior_model", "predict", "predict_trajectories"}) =>
              (trace' = trace /\ model' = model)
        /\ (model' # model) => last'.op = "fit"
        /\ (trace' # trace) => (model' # model /\ last'.kind = "return")
        /\ (model' # model /\ last'.kind = "return") =>
              /\ trace'.graph = model'.id
              /\ \E seed \in 1..MaxSeed : trace' = Sample(model', last'.n, seed)
      ]_vars

\* C8 witness: a read that returns after the second fit replaced the trace
C8_Witness ==
    /\ model.id = 2
    /\ trace.graph = 2
    /\ last.op = "predict"
    /\ last.kind = "return"

\* C4: predict(features, noise=False) draws nothing and is a function of the
\* trace and the features alone: the generator is in the same state after the
\* call as before it, eps, u and v are zero, the outcome is the one the call
\* has from every other generator state, and a call that follows a call with
\* the same features repeats its outcome.
C4_NoiseFreeIsDeterministic ==
    [][ (last'.op = "predict" /\ ~last'.noise) =>
            /\ rng' = rng
            /\ last'.kind = "return" =>
                  /\ AllZero(last'.locals.eps)
                  /\ AllZero(last'.locals.u)
                  /\ AllZero(last'.locals.v)
            /\ \A r \in 0..(RngPeriod - 1) :
                  \E again \in {Predict(trace, last'.features, FALSE, r)} :
                      /\ again.kind = last'.kind
                      /\ again.value = last'.value
                      /\ again.rng = r
            /\ (last.op = "predict" /\ ~last.noise /\ last.features = last'.features) =>
                  (last'.kind = last.kind /\ last'.value = last.value)
      ]_vars

\* C4 witness: a noise-free forecast of several steps has returned, on a trace
\* whose noise scales are not zero
C4_Witness ==
    /\ last.op = "predict"
    /\ ~last.noise
    /\ last.kind = "return"
    /\ last.features.rows >= 2
    /\ Mean(trace.sigma_v) > 0
    /\ trace.N >= 2

C6_LengthsForEveryHorizon ==
    (trace # NoTrace /\ last.features.cols = trace.K) =>
        /\ last.op = "predict" =>
              (last.kind = "return" /\ Len(last.value) = last.features.rows)
        /\ last.op = "predict_trajectories" =>
              /\ last.kind = "return"
              /\ Len(last.value) = last.n
              /\ \A k \in 1..Len(last.value) : Len(last.value[k]) = last.features.rows

\* C7 as claimed: on a fitted object, for every table with the training
\* columns, whatever its number of rows, posterior_model returns one value per
\* row, the value at t being the mean of trend[:, t] plus the regression term
C7_PosteriorForEveryRowCount ==
    (last.op = "posterior_model" /\ trace # NoTrace /\ last.features.cols = trace.K) =>
        /\ last.kind = "return"
        /\ Len(last.value) = last.features.rows
        /\ \A t \in 1..last.features.rows :
              /\ t <= trace.T
              /\ IsMean(MeanAxis0(trace.trend, trace.T)[t], Column(trace.trend, t))
              /\ IsRegression(last.value[t] - MeanAxis0(trace.trend, trace.T)[t],
                              trace, last.features.x[t])

\* C7 as amended: for a table with the training columns and as many rows as the
\* training series, posterior_model returns one value per row, the value at t
\* being the mean of trend[:, t] plus the regression term; for a table with the
\* training columns and another number of rows it raises ValueError
C7_PosteriorOnTrainingRows ==
    (last.op = "posterior_model" /\ trace # NoTrace /\ last.features.cols = trace.K) =>
        IF last.features.rows = trace.T
        THEN /\ last.kind = "return"
             /\ Len(last.value) = last.features.rows
             /\ \A t \in 1..last.features.rows :
                   /\ IsMean(MeanAxis0(trace.trend, trace.T)[t], Column(trace.trend, t))
                   /\ IsRegression(last.value[t] - MeanAxis0(trace.trend, trace.T)[t],
                                   trace, last.features.x[t])
        ELSE /\ last.kind = "raise"
             /\ last.exc = "ValueError"

\* C7 witness: posterior_model has returned for a table of the training shape,
\* with a regressor and several draws
C7_Witness ==
    /\ last.op = "posterior_model"
    /\ last.kind = "return"
    /\ last.features.rows = trace.T
    /\ trace.K >= 1
    /\ trace.N >= 2

\* C10 as claimed: the level advances by the slope of the previous step:
\* trend[t] = trend[t-1] + delta[t-1] + u[t] for t >= 1, and the first forecast
\* level is the last fitted level plus the last fitted slope plus u[0]
C10_LevelUsesPreviousSlope ==
    (last.op = "predict" /\ last.kind = "return") =>
        \E L \in {last.locals} :
            /\ L.trend[1] = Mean(Column(trace.trend, trace.T))
                              + Mean(Column(trace.delta, trace.T - 1)) + L.u[1]
            /\ \A t \in 2..last.features.rows :
                  L.trend[t] = L.trend[t - 1] + L.delta[t - 1] + L.u[t]

\* C9 as claimed: a simulation that ran concurrently with others has the
\* trajectory it produces when run alone from the generator state it started in
C9_InterleavingIndependent ==
    \A i \in Threads :
        sim[i].pc = "done" =>
            \E alone \in {Predict(trace, sim[i].features, TRUE, sim[i].rng0)} :
                /\ sim[i].out.kind = alone.kind
                /\ sim[i].out.value = alone.value

====
